---------------------------- MODULE Spec2Model ----------------------------
(***************************************************************************)
(* A model of the region container decoder of MinedMap                     *)
(* (src/src/io/region.rs): parse_header, decode_chunk and the walker       *)
(* Region::foreach_chunk.                                                  *)
(*                                                                         *)
(* One behaviour is one call of foreach_chunk on one byte source.  The     *)
(* byte source is a header block (one 4-byte entry per slot) followed by   *)
(* sectors of BLOCKSIZE bytes.  The bytes of a chunk block are observed    *)
(* when read_exact delivers them; a block is abstracted to what            *)
(* decode_chunk looks at: the number of bytes, the big-endian length       *)
(* prefix, the format tag byte and what the two library decoders           *)
(* (flate2, fastnbt) make of the compressed data.                          *)
(***************************************************************************)
EXTENDS Integers, Sequences, FiniteSets, TLC

\* ------------------------------------------------------------------ bounds

\* Side of the chunk grid explored (the program's grid is 32 x 32).
RegionDim == 2
\* Largest low offset byte written into a header slot.
MaxOffset == 3
\* Largest sector count byte written into a header slot.
MaxLen == 2
\* Largest file, in sectors (the header sector included).
MaxSectors == 4
\* The walker's index is explored up to this value.
MaxIndex == 6

\* --------------------------------------------------------------- constants

BLOCKSIZE == 4096

CHUNKS_PER_REGION == RegionDim

\* ------------------------------------------------------------ header bytes

Slots == 0 .. (CHUNKS_PER_REGION * CHUNKS_PER_REGION - 1)

\* The slot at byte 4 * (CHUNKS_PER_REGION * z + x) of the header.
SlotIndex(x, z) == CHUNKS_PER_REGION * z + x

SlotX(s) == s % CHUNKS_PER_REGION

SlotZ(s) == s \div CHUNKS_PER_REGION

\* The all-zero header entry.
BlankEntry == <<0, 0, 0, 0>>

\* 4-byte entries written into header slots: offsets with a low byte only,
\* and one entry each with the middle and the high offset byte set.
EntryValues ==
    { <<0, 0, o, n>> : o \in 0 .. MaxOffset, n \in 0 .. MaxLen }
        \cup { <<0, 1, 0, 1>>, <<1, 0, 0, 1>> }

\* The headers explored: all-zero but for the entries of two slots a and b
\* (of one slot when a = b).  Two used slots are what a shared offset, an
\* overlap of reserved ranges and an ordering of chunks take.
Headers ==
    { [s \in Slots |-> IF s = a THEN ea ELSE IF s = b THEN eb ELSE BlankEntry] :
        a \in Slots, b \in Slots, ea \in EntryValues, eb \in EntryValues }

\* u32::from(chunk[0]) << 16 | u32::from(chunk[1]) << 8 | u32::from(chunk[2])
EntryOffset(chunk) == chunk[1] * 65536 + chunk[2] * 256 + chunk[3]

\* let len = chunk[3];
EntryLen(chunk) == chunk[4]

\* ----------------------------------------------------------------- HashMap

EmptyMap == [o \in {} |-> 0]

\* A mutation of map.insert: an occupied key keeps its value.
MapInsertKeepFirst(map, key, value) ==
    IF key \in DOMAIN map
    THEN map
    ELSE [o \in DOMAIN map \cup {key} |-> IF o = key THEN value ELSE map[o]]

\* HashMap::insert: the value of an occupied key is replaced.
MapInsert(map, key, value) ==
    [o \in DOMAIN map \cup {key} |-> IF o = key THEN value ELSE map[o]]

\* HashMap::remove, the map that is left.
MapRemove(map, key) == [o \in DOMAIN map \ {key} |-> map[o]]

\* A mutation of the loop condition: a map of one entry counts as empty.
IsEmptyOffByOne(map) == Cardinality(DOMAIN map) <= 1

\* HashMap::is_empty
is_empty(map) == DOMAIN map = {}

\* ------------------------------------------------------------ parse_header

\* A mutation of ChunkDesc construction: x written into z.
ChunkDescXForZ(x, z, len) == [x |-> x, z |-> x, len |-> len]

\* A mutation of ChunkDesc construction: x and z swapped.
ChunkDescSwapped(x, z, len) == [x |-> z, z |-> x, len |-> len]

ChunkDesc(x, z, len) == [x |-> x, z |-> z, len |-> len]

RECURSIVE ParseLoop(_, _, _, _)
\* The nested loops of parse_header, from iteration (z, x) on.
ParseLoop(header, z, x, map) ==
    IF z = CHUNKS_PER_REGION THEN map
    ELSE IF x = CHUNKS_PER_REGION THEN ParseLoop(header, z + 1, 0, map)
    ELSE LET chunk == header[SlotIndex(x, z)]
             offset == EntryOffset(chunk)
         IN  IF offset = 0
             THEN ParseLoop(header, z, x + 1, map)
             ELSE ParseLoop(header, z, x + 1,
                            MapInsert(map, offset, ChunkDesc(x, z, EntryLen(chunk))))

\* A mutation of parse_header: the `continue` for offset 0 is missing.
ParseHeaderKeepsZero(header) ==
    [o \in { EntryOffset(header[s]) : s \in Slots } |->
        LET last == CHOOSE s \in Slots :
                        /\ EntryOffset(header[s]) = o
                        /\ \A u \in Slots : EntryOffset(header[u]) = o => u <= s
        IN  ChunkDesc(SlotX(last), SlotZ(last), EntryLen(header[last]))]

parse_header(header) == ParseLoop(header, 0, 0, EmptyMap)

\* ------------------------------------------------------------ decode_chunk

\* Outcomes of foreach_chunk: Ok, the anyhow errors, and the panics.
OK == "Ok"

ErrHeader == "Failed to read region header"

ErrRead == "Failed to read chunk data"

ErrChunkSize == "Failed to decode chunk size"

ErrFormat == "Unknown chunk format"

ErrZlib == "Failed to decompress chunk data"

ErrNbt == "Failed to decode NBT data"

ErrDuplicate == "Duplicate chunk"

PanicSplitAt == "panic: split_at: mid > len"

PanicSlice == "panic: range end index out of range for slice"

ErrorValues == {ErrHeader, ErrRead, ErrChunkSize, ErrFormat, ErrZlib, ErrNbt, ErrDuplicate}

Panics == {PanicSplitAt, PanicSlice}

\* No buffer is held.
NoBuffer == [size |-> -1, L |-> 0, tag |-> 0, body |-> "none"]

\* Length prefixes found in a block: small ones, and for each sector count
\* the largest that fits and the smallest that does not.
LengthPrefixes ==
    {0, 1} \cup { n * BLOCKSIZE - 4 : n \in 1 .. MaxLen }
           \cup { n * BLOCKSIZE - 3 : n \in 1 .. MaxLen }

\* Format tag bytes found in a block.
FormatTags == {1, 2, 3}

\* What the library decoders make of the compressed data of a block.
Bodies == {"ok", "bad_zlib", "bad_nbt"}

\* The blocks read_exact can deliver into a buffer of `size` bytes.
Buffers(size) ==
    IF size = 0
    THEN { [size |-> 0, L |-> 0, tag |-> 0, body |-> "none"] }
    ELSE { [size |-> size, L |-> l, tag |-> t, body |-> b] :
             l \in LengthPrefixes, t \in FormatTags, b \in Bodies }

\* decode_chunk(&buffer[..]): Ok, an error, or a panic.
decode_chunk(buf) ==
    IF buf.size < 4 THEN PanicSplitAt                  \* buf.split_at(4)
    ELSE IF buf.L > buf.size - 4 THEN PanicSlice       \* &buf[..len]
    ELSE IF buf.L < 1 THEN PanicSplitAt                \* buf.split_at(1)
    ELSE IF buf.tag # 2 THEN ErrFormat
    ELSE IF buf.body = "bad_zlib" THEN ErrZlib
    ELSE IF buf.body = "bad_nbt" THEN ErrNbt
    ELSE OK

\* ------------------------------------------------------------------- state

VARIABLES
    fileLen,    \* length of the byte source, in bytes
    header,     \* the first BLOCKSIZE bytes of the source, one entry per slot
    pc,         \* position in foreach_chunk: start, loop, read, decode, done
    pos,        \* the reader's byte position
    chunk_map,  \* offset -> ChunkDesc, the entries not yet visited
    index,      \* the walker's sector index
    seen,       \* the occupancy grid, as the set of marked <<x, z>>
    cur,        \* the ChunkDesc removed in this iteration, with its sector
    buffer,     \* the block read in this iteration
    calls,      \* the callback invocations so far, in order
    result,     \* what foreach_chunk returned, "none" while it runs
    iters,      \* iterations of the while loop begun
    wellFormed, \* every block delivered so far was a well-formed payload
    block,      \* block_color.rs: the BlockType passed in
    biome,      \* block_color.rs: the Option<&Biome> passed in
    depth,      \* block_color.rs: the depth passed in
    needsOut,   \* what needs_biome(block) returned
    colorOut,   \* what block_color(block, biome, depth) returned
    grassOut    \* what biome.grass_color(depth) returned

\* The state of one foreach_chunk call.
regionVars == <<fileLen, header, pc, pos, chunk_map, index, seen, cur, buffer,
                calls, result, iters, wellFormed>>

\* The state of the calls into block_color.rs.
colorVars == <<block, biome, depth, needsOut, colorOut, grassOut>>

vars == <<regionVars, colorVars>>

\* `sector` and `at` record the index and the byte position of the match.
NoChunk == [x |-> -1, z |-> -1, len |-> 0, sector |-> 0, at |-> 0]

\* seen[x][z] = true, a mutation: the flag is not set.
MarkSeenNot(grid, x, z) == grid

\* *chunk_seen = true
MarkSeen(grid, x, z) == grid \cup {<<x, z>>}

\* ---------------------------------------------------------- block_color.rs

\* A Vec3 is kept exact: three numerators over one denominator.
Vec3(r, g, b, den) == [num |-> <<r, g, b>>, den |-> den]

\* Vec3::new with components given to three decimals.
Milli(r, g, b) == Vec3(r, g, b, 1000)

\* u + v
VAdd(u, v) ==
    IF u.den % v.den = 0
    THEN [num |-> [i \in 1 .. 3 |-> u.num[i] + v.num[i] * (u.den \div v.den)],
          den |-> u.den]
    ELSE [num |-> [i \in 1 .. 3 |-> u.num[i] * v.den + v.num[i] * u.den],
          den |-> u.den * v.den]

\* 0.5 * v
VHalf(v) == [num |-> v.num, den |-> 2 * v.den]

\* color_vec_unscaled: the u8 components as they are.
color_vec_unscaled(color) == Vec3(color[1], color[2], color[3], 1)

\* color_vec: the u8 components divided by 255.0.
color_vec(color) == Vec3(color[1], color[2], color[3], 255)

\* The flags of a BlockType.
BlockFlag == {"Grass", "Foliage", "Birch", "Spruce", "Water"}

\* BlockType::is
Is(b, flag) == flag \in b.flags

\* Option::None and Option::Some of a Color.
NoColor == [some |-> FALSE, rgb |-> <<0, 0, 0>>]

SomeColor(rgb) == [some |-> TRUE, rgb |-> rgb]

\* Option::None of a &Biome.
NoBiome ==
    [some |-> FALSE, temp |-> 0, downfall |-> 0, grass_color |-> NoColor,
     foliage_color |-> NoColor, water_color |-> NoColor,
     grass_color_modifier |-> "None"]

\* Block types passed in: every set of flags, on one base color.
BlockTypes == [flags : SUBSET BlockFlag, color : {<<200, 100, 50>>}]

\* Biomes passed in.  temp and downfall are in thousandths and reach
\* below 0 and above 1.
Biomes ==
    [some : {TRUE}, temp : {-500, 500, 2000}, downfall : {400, 1500},
     grass_color : {NoColor, SomeColor(<<10, 20, 30>>)},
     foliage_color : {NoColor, SomeColor(<<40, 50, 60>>)},
     water_color : {NoColor, SomeColor(<<70, 80, 90>>)},
     grass_color_modifier : {"None", "DarkForest", "Swamp"}]

\* Depths passed in: below, at and above 64.
Depths == {0, 64, 124}

Clamp(v, lo, hi) == IF v < lo THEN lo ELSE IF v > hi THEN hi ELSE v

\* color_from_params: temp in thousandths, downfall in millionths, the
\* color over 10^9.
color_from_params(colors, b, d) ==
    LET byDepth == ((d - 64) * 1000) \div 600
        temp == Clamp(b.temp - (IF byDepth > 0 THEN byDepth ELSE 0), 0, 1000)
        downfall == Clamp(b.downfall, 0, 1000) * temp
    IN  [num |-> [i \in 1 .. 3 |->
                     colors[1].num[i] * 1000000 + temp * colors[2].num[i] * 1000
                         + downfall * colors[3].num[i]],
         den |-> 1000000000]

GRASS_COLORS == <<Milli(502, 706, 592), Milli(247, 12, -259), Milli(-471, 86, -133)>>

DARK_FOREST_GRASS_COLOR == Milli(157, 204, 39)

SWAMP_GRASS_COLOR == Milli(416, 439, 224)

FOLIAGE_COLORS == <<Milli(376, 631, 482), Milli(306, 12, -317), Milli(-580, 106, -165)>>

DEFAULT_WATER_COLOR == Milli(247, 463, 894)

BIRCH_COLOR == Milli(502, 655, 333)

EVERGREEN_COLOR == Milli(380, 600, 380)

\* The closure regular_color of grass_color.
regular_color(b, d) ==
    IF b.grass_color.some
    THEN color_vec(b.grass_color.rgb)
    ELSE color_from_params(GRASS_COLORS, b, d)

\* A mutation of grass_color: the swamp arm blends like the dark forest arm.
GrassColorSwampBlended(b, d) ==
    CASE b.grass_color_modifier = "DarkForest" ->
            VHalf(VAdd(regular_color(b, d), DARK_FOREST_GRASS_COLOR))
      [] b.grass_color_modifier = "Swamp" ->
            VHalf(VAdd(regular_color(b, d), SWAMP_GRASS_COLOR))
      [] OTHER -> regular_color(b, d)

\* BiomeExt::grass_color
grass_color(b, d) ==
    CASE b.grass_color_modifier = "DarkForest" ->
            VHalf(VAdd(regular_color(b, d), DARK_FOREST_GRASS_COLOR))
      [] b.grass_color_modifier = "Swamp" -> SWAMP_GRASS_COLOR
      [] OTHER -> regular_color(b, d)

\* BiomeExt::foliage_color
foliage_color(b, d) ==
    IF b.foliage_color.some
    THEN color_vec(b.foliage_color.rgb)
    ELSE color_from_params(FOLIAGE_COLORS, b, d)

\* BiomeExt::water_color
water_color(b) ==
    IF b.water_color.some THEN color_vec(b.water_color.rgb) ELSE DEFAULT_WATER_COLOR

\* A mutation of needs_biome: the water flag is not looked at.
NeedsBiomeNoWater(b) == Is(b, "Grass") \/ Is(b, "Foliage")

\* needs_biome
needs_biome(b) == Is(b, "Grass") \/ Is(b, "Foliage") \/ Is(b, "Water")

\* What block_color gives: a panic, or the color as the base color, the
\* multipliers applied to it in order, and the shading factor in
\* thousandths.
NoOutput == [status |-> "unset", base |-> Vec3(0, 0, 0, 1), factors |-> <<>>, shade |-> 0]

Panicked == [status |-> "panic", base |-> Vec3(0, 0, 0, 1), factors |-> <<>>, shade |-> 0]

\* color *= factor, where the factor is reached through get_biome() when
\* viaBiome: biome.expect(..) panics on None.
Multiply(acc, applies, viaBiome, bm, factor) ==
    IF acc.status = "panic" \/ ~applies THEN acc
    ELSE IF viaBiome /\ ~bm.some THEN Panicked
    ELSE [acc EXCEPT !.factors = Append(@, factor)]

\* The multiplications of block_color, in the order of the code.
Tinted(b, bm, d) ==
    LET c0 == [status |-> "ok", base |-> color_vec_unscaled(b.color),
               factors |-> <<>>, shade |-> 0]
        c1 == Multiply(c0, Is(b, "Grass"), TRUE, bm, grass_color(bm, d))
        c2 == Multiply(c1, Is(b, "Foliage"), TRUE, bm, foliage_color(bm, d))
        c3 == Multiply(c2, Is(b, "Birch"), FALSE, bm, BIRCH_COLOR)
        c4 == Multiply(c3, Is(b, "Spruce"), FALSE, bm, EVERGREEN_COLOR)
    IN  Multiply(c4, Is(b, "Water"), TRUE, bm, water_color(bm))

\* A mutation of block_color: the biome is unwrapped on entry, not when a
\* tint asks for it.
BlockColorEagerBiome(b, bm, d) ==
    IF ~bm.some THEN Panicked
    ELSE [Tinted(b, bm, d) EXCEPT !.shade = 500 + 5 * d]

\* block_color: color * (0.5 + 0.005 * depth)
block_color(b, bm, d) ==
    LET color == Tinted(b, bm, d)
    IN  IF color.status = "panic" THEN color
        ELSE [color EXCEPT !.shade = 500 + 5 * d]

NoCall == [called |-> FALSE, value |-> FALSE]

NoGrass == [called |-> FALSE, value |-> Vec3(0, 0, 0, 1)]

\* No call into block_color.rs is under way.
ColorIdle ==
    /\ block = [flags |-> {}, color |-> <<0, 0, 0>>]
    /\ biome = NoBiome
    /\ depth = 0
    /\ needsOut = NoCall
    /\ colorOut = NoOutput
    /\ grassOut = NoGrass

Init ==
    /\ fileLen \in { s * BLOCKSIZE : s \in 0 .. MaxSectors }
    /\ header \in Headers
    /\ fileLen < BLOCKSIZE => header = [s \in Slots |-> BlankEntry]
    /\ pc = "start"
    /\ pos = 0
    /\ chunk_map = EmptyMap
    /\ index = 0
    /\ seen = {}
    /\ cur = NoChunk
    /\ buffer = NoBuffer
    /\ calls = <<>>
    /\ result = "none"
    /\ iters = 0
    /\ wellFormed = TRUE
    /\ ColorIdle

\* reader.read_exact(&mut header); parse_header(&header); index = 1; seen
ReadHeader ==
    /\ UNCHANGED colorVars
    /\ pc = "start"
    /\ IF fileLen < BLOCKSIZE
       THEN /\ result' = ErrHeader
            /\ pc' = "done"
            /\ pos' = fileLen
            /\ UNCHANGED <<chunk_map, index>>
       ELSE /\ chunk_map' = parse_header(header)
            /\ index' = 1
            /\ pos' = BLOCKSIZE
            /\ pc' = "loop"
            /\ UNCHANGED result
    /\ UNCHANGED <<fileLen, header, seen, cur, buffer, calls, iters, wellFormed>>

\* while !chunk_map.is_empty() is false: Ok(())
LoopExit ==
    /\ UNCHANGED colorVars
    /\ pc = "loop"
    /\ is_empty(chunk_map)
    /\ result' = OK
    /\ pc' = "done"
    /\ UNCHANGED <<fileLen, header, pos, chunk_map, index, seen, cur, buffer,
                   calls, iters, wellFormed>>

\* A mutation of the seek: from the start of the source, not from where
\* it stands.
SeekFromStart(p) == BLOCKSIZE

\* reader.seek(SeekFrom::Current(BLOCKSIZE as i64))
Seek(p) == p + BLOCKSIZE

\* chunk_map.remove(&index) is None: seek one block ahead, index += 1
\* A seek past the end of a file or an in-memory source succeeds.  The u32
\* index is followed up to MaxIndex, far below its overflow at 2^32.
SkipSector ==
    /\ UNCHANGED colorVars
    /\ pc = "loop"
    /\ ~is_empty(chunk_map)
    /\ index \notin DOMAIN chunk_map
    /\ index < MaxIndex
    /\ pos' = Seek(pos)
    /\ index' = index + 1
    /\ iters' = iters + 1
    /\ UNCHANGED <<fileLen, header, pc, chunk_map, seen, cur, buffer, calls,
                   result, wellFormed>>

\* chunk_map.remove(&index) is Some: the duplicate check, the mark
MatchChunk ==
    /\ UNCHANGED colorVars
    /\ pc = "loop"
    /\ ~is_empty(chunk_map)
    /\ index \in DOMAIN chunk_map
    /\ LET desc == chunk_map[index]
       IN  /\ chunk_map' = MapRemove(chunk_map, index)
           /\ iters' = iters + 1
           /\ IF <<desc.x, desc.z>> \in seen
              THEN /\ result' = ErrDuplicate
                   /\ pc' = "done"
                   /\ UNCHANGED <<seen, cur>>
              ELSE /\ seen' = MarkSeen(seen, desc.x, desc.z)
                   /\ cur' = [x |-> desc.x, z |-> desc.z, len |-> desc.len,
                              sector |-> index, at |-> pos]
                   /\ pc' = "read"
                   /\ UNCHANGED result
    /\ UNCHANGED <<fileLen, header, pos, index, buffer, calls, wellFormed>>

\* A well-formed payload block: prefix, tag 2, data both decoders accept.
WellFormedPayload(buf) ==
    /\ buf.size >= 4
    /\ buf.L >= 1
    /\ buf.L <= buf.size - 4
    /\ buf.tag = 2
    /\ buf.body = "ok"

\* vec![0; len * BLOCKSIZE]; reader.read_exact(&mut buffer[..])
\* read_exact into an empty buffer succeeds wherever the source stands.
ReadChunk ==
    /\ UNCHANGED colorVars
    /\ pc = "read"
    /\ LET size == cur.len * BLOCKSIZE
       IN  IF size > 0 /\ pos + size > fileLen
           THEN /\ result' = ErrRead
                /\ pc' = "done"
                /\ pos' = IF pos > fileLen THEN pos ELSE fileLen
                /\ UNCHANGED <<buffer, wellFormed>>
           ELSE /\ \E buf \in Buffers(size) :
                      /\ buffer' = buf
                      /\ wellFormed' = (wellFormed /\ WellFormedPayload(buf))
                /\ pos' = pos + size
                /\ pc' = "decode"
                /\ UNCHANGED result
    /\ UNCHANGED <<fileLen, header, chunk_map, index, seen, cur, calls, iters>>

\* A mutation of the index advance: one sector, whatever the sector count.
AdvanceOne(i, len) == i + 1

\* index += len as u32
Advance(i, len) == i + len

\* A mutation of the callback: invoked whatever decode_chunk returned.
InvokeAlways(cs, chunk, outcome) == Append(cs, chunk)

\* f(x, z, decode_chunk(&buffer[..])?): `?` returns before f is called.
Invoke(cs, chunk, outcome) == IF outcome = OK THEN Append(cs, chunk) ELSE cs

\* f(x, z, decode_chunk(&buffer[..])?); index += len
DecodeChunk ==
    /\ UNCHANGED colorVars
    /\ pc = "decode"
    /\ LET outcome == decode_chunk(buffer)
       IN  IF outcome = OK
           THEN /\ calls' = Invoke(calls, cur, outcome)
                /\ index' = Advance(index, cur.len)
                /\ buffer' = NoBuffer
                /\ cur' = NoChunk
                /\ pc' = "loop"
                /\ UNCHANGED result
           ELSE /\ calls' = Invoke(calls, cur, outcome)
                /\ result' = outcome
                /\ pc' = "done"
                /\ UNCHANGED <<index, buffer, cur>>
    /\ UNCHANGED <<fileLen, header, pos, chunk_map, seen, iters, wellFormed>>

Next ==
    \/ ReadHeader
    \/ LoopExit
    \/ SkipSector
    \/ MatchChunk
    \/ ReadChunk
    \/ DecodeChunk

Spec == Init /\ [][Next]_vars

\* No foreach_chunk call is under way.
RegionIdle ==
    /\ fileLen = 0
    /\ header = [s \in Slots |-> BlankEntry]
    /\ pc = "idle"
    /\ pos = 0
    /\ chunk_map = EmptyMap
    /\ index = 0
    /\ seen = {}
    /\ cur = NoChunk
    /\ buffer = NoBuffer
    /\ calls = <<>>
    /\ result = "none"
    /\ iters = 0
    /\ wellFormed = TRUE

\* A caller of block_color.rs holds a block type, a biome or none, a depth.
ColorInit ==
    /\ RegionIdle
    /\ block \in BlockTypes
    /\ biome \in Biomes \cup {NoBiome}
    /\ depth \in Depths
    /\ needsOut = NoCall
    /\ colorOut = NoOutput
    /\ grassOut = NoGrass

\* needs_biome(block)
CallNeedsBiome ==
    /\ ~needsOut.called
    /\ needsOut' = [called |-> TRUE, value |-> needs_biome(block)]
    /\ UNCHANGED <<regionVars, block, biome, depth, colorOut, grassOut>>

\* block_color(block, biome, depth)
CallBlockColor ==
    /\ colorOut.status = "unset"
    /\ colorOut' = block_color(block, biome, depth)
    /\ UNCHANGED <<regionVars, block, biome, depth, needsOut, grassOut>>

\* biome.grass_color(depth), for a biome that is there
CallGrassColor ==
    /\ biome.some
    /\ ~grassOut.called
    /\ grassOut' = [called |-> TRUE, value |-> grass_color(biome, depth)]
    /\ UNCHANGED <<regionVars, block, biome, depth, needsOut, colorOut>>

ColorNext ==
    \/ CallNeedsBiome
    \/ CallBlockColor
    \/ CallGrassColor

SpecColor == ColorInit /\ [][ColorNext]_vars

\* ----------------------------------------------------- the region file read

\* Header slots with a nonzero offset.
PresentSlots == { s \in Slots : EntryOffset(header[s]) # 0 }

PresentPositions == { <<SlotX(s), SlotZ(s)>> : s \in PresentSlots }

CalledPositions == { <<calls[i].x, calls[i].z>> : i \in 1 .. Len(calls) }

\* Two present slots carry the same offset.
OffsetCollision ==
    \E s, t \in PresentSlots :
        s # t /\ EntryOffset(header[s]) = EntryOffset(header[t])

\* The reserved sector ranges [offset, offset + count) of two present slots meet.
RangesOverlap ==
    \E s, t \in PresentSlots :
        /\ s # t
        /\ EntryOffset(header[s]) < EntryOffset(header[t]) + EntryLen(header[t])
        /\ EntryOffset(header[t]) < EntryOffset(header[s]) + EntryLen(header[s])

\* Every reserved range lies within the file.
RangesInFile ==
    \A s \in PresentSlots :
        (EntryOffset(header[s]) + EntryLen(header[s])) * BLOCKSIZE <= fileLen

\* A valid region file, as far as it has been read: a whole header, every
\* present entry with an offset of its own, no two reserved ranges
\* overlapping, every range in the file, every block read well-formed.
ValidRegion ==
    /\ fileLen >= BLOCKSIZE
    /\ ~OffsetCollision
    /\ ~RangesOverlap
    /\ RangesInFile
    /\ wellFormed

SetMax(S) == CHOOSE m \in S : \A n \in S : n <= m

\* -------------------------------------------------------------------- C1

\* C1: for a valid region file foreach_chunk returns Ok and the positions
\* passed to the callback are exactly the header slots with a nonzero
\* offset, each once; on the way the walker never passes an entry.
C1_ValidRegionYieldsPresentChunks ==
    ValidRegion =>
        /\ pc = "loop" => \A o \in DOMAIN chunk_map : index <= o
        /\ pc = "done" =>
              /\ result = OK
              /\ CalledPositions = PresentPositions
              /\ Len(calls) = Cardinality(PresentSlots)

\* A valid file of two chunks, walked to the end.
C1_Witness ==
    /\ pc = "done"
    /\ ValidRegion
    /\ result = OK
    /\ Len(calls) = 2

\* -------------------------------------------------------------------- C2

\* C2: the number of loop iterations is bounded by the size of the input:
\* by the number of sectors of the file or, for a table with offsets past
\* the end of the file, by the largest offset of the table.  (The claim
\* states the first bound alone; it fails with this one already.)
C2_IterationsBounded ==
    iters <= SetMax({fileLen \div BLOCKSIZE}
                      \cup { EntryOffset(header[s]) + 1 : s \in PresentSlots })

\* -------------------------------------------------------------------- C3

\* C3: a length prefix larger than the bytes left in the reserved block
\* makes foreach_chunk return an error value, and the chunk is not called.
C3_OversizedPrefixIsAnError ==
    (pc = "done" /\ buffer.size >= 4 /\ buffer.L > buffer.size - 4) =>
        /\ result \in ErrorValues
        /\ \A i \in 1 .. Len(calls) : calls[i].sector # cur.sector

\* -------------------------------------------------------------------- C4

\* C4: a reserved block of fewer than 4 bytes (a table entry with sector
\* count 0) makes decoding fail with the chunk size decode error.
C4_MissingPrefixIsAnError ==
    (pc = "done" /\ buffer.size >= 0 /\ buffer.size < 4) =>
        result = ErrChunkSize

\* -------------------------------------------------------------------- C5

\* C5: a block that reaches the format check (its prefix L fits the block)
\* and whose tag is not 2, or absent because L = 0, fails with "Unknown
\* chunk format".
C5_OtherTagIsUnknownFormat ==
    (/\ pc = "done"
     /\ buffer.size >= 4
     /\ buffer.L <= buffer.size - 4
     /\ (buffer.L = 0 \/ buffer.tag # 2)) =>
        result = ErrFormat

\* -------------------------------------------------------------------- C7

\* C7: no position has been passed to the callback twice, every position
\* passed to it is marked in the grid, and the position of the chunk being
\* read or decoded (whose callback is still to come) is marked already.
C7_EachPositionAtMostOnce ==
    /\ \A i, j \in 1 .. Len(calls) :
          (calls[i].x = calls[j].x /\ calls[i].z = calls[j].z) => i = j
    /\ CalledPositions \subseteq seen
    /\ pc \in {"read", "decode"} => <<cur.x, cur.z>> \in seen

\* A second chunk is about to be handed to the callback.
C7_Witness ==
    /\ pc = "decode"
    /\ Len(calls) = 1
    /\ decode_chunk(buffer) = OK

\* -------------------------------------------------------------------- C8

\* The last slot, in on-disk order, that carries offset o.
LastSlotWith(o) == SetMax({ s \in Slots : EntryOffset(header[s]) = o })

\* C8: a callback made for the block at offset O carries the position and
\* the sector count of the last slot with offset O, the block at O is
\* decoded at most once, a pass that returns Ok has decoded the block of
\* every nonzero offset of the header, and a shared offset never leads to
\* the "Duplicate chunk" error.
C8_LastSlotWins ==
    /\ \A i \in 1 .. Len(calls) :
          /\ \E s \in Slots : EntryOffset(header[s]) = calls[i].sector
          /\ calls[i].x = SlotX(LastSlotWith(calls[i].sector))
          /\ calls[i].z = SlotZ(LastSlotWith(calls[i].sector))
          /\ calls[i].len = EntryLen(header[LastSlotWith(calls[i].sector)])
          /\ \A j \in 1 .. Len(calls) : calls[j].sector = calls[i].sector => j = i
    /\ result = OK =>
          \A s \in PresentSlots :
              \E i \in 1 .. Len(calls) : calls[i].sector = EntryOffset(header[s])
    /\ OffsetCollision => result # ErrDuplicate

\* Two slots share an offset, with different sector counts, and the pass
\* has returned Ok with the one callback.
C8_Witness ==
    /\ OffsetCollision
    /\ \E s, t \in PresentSlots : EntryLen(header[s]) # EntryLen(header[t])
    /\ result = OK
    /\ Len(calls) = 1

\* -------------------------------------------------------------------- C9

IsPrefix(s, t) == Len(s) <= Len(t) /\ SubSeq(t, 1, Len(s)) = s

EndOfLastChunk ==
    IF calls = <<>>
    THEN BLOCKSIZE
    ELSE (calls[Len(calls)].sector + calls[Len(calls)].len) * BLOCKSIZE

\* C10: with the table empty at the head of the loop the next step returns
\* Ok and moves nothing; a pass that returned Ok left the table empty and
\* the source right behind the last chunk; an all-zero header gives Ok with
\* no callback, no iteration and the source behind the header.
C10_OkWhenTableEmpty ==
    /\ [](/\ (pc = "loop" /\ DOMAIN chunk_map = {}) => pos = EndOfLastChunk
          /\ result = OK => (DOMAIN chunk_map = {} /\ pos = EndOfLastChunk)
          /\ (pc = "done" /\ fileLen >= BLOCKSIZE /\ PresentSlots = {}) =>
                (result = OK /\ calls = <<>> /\ iters = 0 /\ pos = BLOCKSIZE))
    /\ [][(pc = "loop" /\ DOMAIN chunk_map = {}) =>
              (result' = OK /\ pc' = "done" /\ pos' = pos /\ iters' = iters
                 /\ calls' = calls)]_vars

\* Ok after a chunk, with sectors of the file left unread.
C10_Witness ==
    /\ result = OK
    /\ Len(calls) >= 1
    /\ fileLen > pos

\* ------------------------------------------------------------------- C11

\* The 3-byte big-endian number at the head of a header entry.
BigEndian24(entry) == entry[1] * 65536 + entry[2] * 256 + entry[3]

\* C11: the map parse_header returns (the table before the first iteration)
\* has as keys exactly the nonzero big-endian offsets of the slots, each
\* mapped to the (x, z, sector count) of a slot at index 32*z + x carrying
\* that offset; key 0 is never in the table, and no read and no callback is
\* ever made for sector 0 or for a slot whose offset is 0.
C11_TableIsTheNonzeroOffsets ==
    /\ (pc = "loop" /\ iters = 0) =>
          /\ DOMAIN chunk_map = { BigEndian24(header[s]) : s \in Slots } \ {0}
          /\ \A o \in DOMAIN chunk_map :
                \E s \in Slots :
                    /\ BigEndian24(header[s]) = o
                    /\ chunk_map[o].x = s % CHUNKS_PER_REGION
                    /\ chunk_map[o].z = s \div CHUNKS_PER_REGION
                    /\ chunk_map[o].len = header[s][4]
    /\ 0 \notin DOMAIN chunk_map
    /\ pc \in {"read", "decode"} =>
          /\ cur.sector # 0
          /\ BigEndian24(header[SlotIndex(cur.x, cur.z)]) # 0
    /\ \A i \in 1 .. Len(calls) :
          /\ calls[i].sector # 0
          /\ BigEndian24(header[SlotIndex(calls[i].x, calls[i].z)]) # 0

\* A header parsed with a slot of offset 0 and nonzero count beside a slot
\* whose offset has only its high byte set.
C11_Witness ==
    /\ pc = "loop"
    /\ iters = 0
    /\ \E s \in Slots : header[s] = <<0, 0, 0, 1>>
    /\ \E s \in Slots : header[s] = <<1, 0, 0, 1>>
    /\ DOMAIN chunk_map = {65536}

\* ------------------------------------------------------------------- C15

\* C15: the callbacks are made in strictly increasing order of the chunks'
\* sector offsets and of the byte positions their blocks were read from.
C15_CallbacksInFileOrder ==
    \A i, j \in 1 .. Len(calls) :
        i < j => (calls[i].sector < calls[j].sector /\ calls[i].at < calls[j].at)

\* Two callbacks made, the chunk of the later header slot first.
C15_Witness ==
    /\ Len(calls) = 2
    /\ SlotIndex(calls[1].x, calls[1].z) > SlotIndex(calls[2].x, calls[2].z)

\* ------------------------------------------------------------------- C16

\* C16: chunk payload blocks are read only from sectors with index >= 2:
\* no bytes of sector 1 are read into a chunk buffer and no callback is
\* made for a chunk at sector 1.
C16_SectorOneNeverRead ==
    /\ (pc = "decode" /\ buffer.size > 0) => cur.sector >= 2
    /\ \A i \in 1 .. Len(calls) : calls[i].sector >= 2

\* ------------------------------------------------------------------- C17

\* C17: at the head of every iteration the source stands at BLOCKSIZE *
\* index (BLOCKSIZE and 1 after the header read); a skip step moves the
\* source by BLOCKSIZE and index by 1, reads nothing and leaves table,
\* grid and callbacks as they are; a chunk step that returns to the loop
\* has consumed len * BLOCKSIZE bytes from where the chunk was matched and
\* added len to index, whatever the length prefix.
C17_SourceFollowsIndex ==
    /\ [](/\ pc = "loop" => pos = BLOCKSIZE * index
          /\ (pc = "loop" /\ iters = 0) => (pos = BLOCKSIZE /\ index = 1))
    /\ [][/\ (pc = "loop" /\ pc' = "loop") =>
                /\ pos' = pos + BLOCKSIZE
                /\ index' = index + 1
                /\ UNCHANGED <<chunk_map, seen, buffer, calls, wellFormed>>
          /\ (pc = "read" /\ pc' = "decode") =>
                pos' = pos + cur.len * BLOCKSIZE
          /\ (pc = "decode" /\ pc' = "loop") =>
                /\ pos' = cur.at + cur.len * BLOCKSIZE
                /\ index' = cur.sector + cur.len]_vars

\* Back at the head of the loop after a chunk of two sectors whose length
\* prefix leaves most of the block as padding.
C17_Witness ==
    /\ pc = "loop"
    /\ Len(calls) = 1
    /\ calls[1].len = 2
    /\ index = calls[1].sector + 2

\* ------------------------------------------------------------------- C18

\* C18: the occupancy flag of a table entry is never set: no entry left in
\* the table has a marked position, no two entries share a position, and
\* foreach_chunk never returns "Duplicate chunk".
C18_DuplicateUnreachable ==
    /\ result # ErrDuplicate
    /\ \A o \in DOMAIN chunk_map : <<chunk_map[o].x, chunk_map[o].z>> \notin seen
    /\ \A o, q \in DOMAIN chunk_map :
          (chunk_map[o].x = chunk_map[q].x /\ chunk_map[o].z = chunk_map[q].z)
              => o = q

\* A second entry was matched and its flag found unset, one position having
\* been marked before.
C18_Witness ==
    /\ pc = "read"
    /\ Cardinality(seen) = 2
    /\ Len(calls) = 1

\* ------------------------------------------------------------------- C12

\* C12: needs_biome returns true exactly for the block types that carry
\* the grass, the foliage or the water flag.
C12_NeedsBiomeIffTinted ==
    needsOut.called =>
        (needsOut.value <=> (block.flags \cap {"Grass", "Foliage", "Water"} # {}))

\* needs_biome has returned false for a block with the birch and the
\* spruce flag only.
C12_Witness ==
    /\ needsOut.called
    /\ ~needsOut.value
    /\ block.flags = {"Birch", "Spruce"}

\* ------------------------------------------------------------------- C13

\* C13: block_color called without a biome panics exactly when
\* needs_biome(block) is true; called with a biome it never panics, and
\* what it returns otherwise is a color.
C13_PanicIffBiomeMissing ==
    (colorOut.status # "unset" /\ needsOut.called) =>
        /\ colorOut.status \in {"panic", "ok"}
        /\ ~biome.some => ((colorOut.status = "panic") <=> needsOut.value)
        /\ biome.some => colorOut.status = "ok"

\* block_color has panicked, with no biome, for a block with the water and
\* the birch flag, for which needs_biome has returned true.
C13_Witness ==
    /\ colorOut.status = "panic"
    /\ ~biome.some
    /\ block.flags = {"Birch", "Water"}
    /\ needsOut.called
    /\ needsOut.value

\* ------------------------------------------------------------------- C14

\* C14: grass_color of a swamp biome is (0.416, 0.439, 0.224) whatever the
\* temperature, downfall, override and depth; with no modifier it is the
\* override over 255 when there is one and the ramp value otherwise.
C14_SwampGrassIsConstant ==
    grassOut.called =>
        /\ biome.grass_color_modifier = "Swamp" =>
              grassOut.value = [num |-> <<416, 439, 224>>, den |-> 1000]
        /\ (biome.grass_color_modifier = "None" /\ biome.grass_color.some) =>
              grassOut.value = [num |-> biome.grass_color.rgb, den |-> 255]
        /\ (biome.grass_color_modifier = "None" /\ ~biome.grass_color.some) =>
              grassOut.value = color_from_params(GRASS_COLORS, biome, depth)

\* grass_color has returned for a swamp biome that carries an override.
C14_Witness ==
    /\ grassOut.called
    /\ biome.grass_color_modifier = "Swamp"
    /\ biome.grass_color.some
    /\ biome.temp = 2000
    /\ depth = 124

=============================================================================
